---- MODULE Spec2Model ----
(***************************************************************************)
(* A model of fake_news_clean.py: the FakeNewsNet cleaning pipeline.       *)
(*                                                                         *)
(* A CSV file is a sequence of raw rows; a raw cell is a sequence of       *)
(* one-character strings, so that trimming, parsing and formatting are     *)
(* computed on the text itself.  A DataFrame is a record of per-column     *)
(* dtypes and a sequence of rows; each row carries its index label.        *)
(* DataFrames live in a heap of objects, because the script rebinds and    *)
(* assigns into frames and the difference is observable by the caller.     *)
(*                                                                         *)
(* Domain of the text model: cells hold no comma, quote or line break, and *)
(* numeric cells are optionally signed runs of decimal digits (no blanks,  *)
(* decimal point, exponent, "inf" or booleans).                            *)
(***************************************************************************)
EXTENDS Integers, Sequences, FiniteSets, TLC

VARIABLES
    csv,        \* the rows of FakeNewsNet.csv below its header
    pc,         \* main: the stage about to run, or "done" / "failed"
    heap,       \* DataFrame objects, by object id
    df,         \* main's df: an object id, 0 while unbound
    df_clean,   \* main's df_clean: an object id, 0 while unbound
    err,        \* the exception that ended the run, "" if none
    stdout,     \* the stages that have printed their completion, in order
    images,     \* how many of the two PNG files have been written
    charts,     \* the label pie and bar chart of fake_news_analysis.png
    out_csv,    \* FakeNewsNet_clean.csv: <<>> while unwritten, else <<rows>>
    fn_pc,      \* function harness: the application about to be made
    fn_in,      \* load_data(csv)
    fn_out,     \* clean_data(fn_in)
    fn_again,   \* clean_data(fn_out)
    fn_back     \* load_data(save_data(fn_out))

vars == <<csv, pc, heap, df, df_clean, err, stdout, images, charts, out_csv,
          fn_pc, fn_in, fn_out, fn_again, fn_back>>

mainVars == <<pc, heap, df, df_clean, err, stdout, images, charts, out_csv>>

fnVars == <<fn_pc, fn_in, fn_out, fn_again, fn_back>>

(***************************************************************************)
(* Bounds.                                                                 *)
(***************************************************************************)
MaxRows == 2

MaxPipelineRows == 3

(***************************************************************************)
(* Text.                                                                   *)
(***************************************************************************)
Whitespace == {" ", "\t", "\n", "\r", "\f"}

Digits == {"0", "1", "2", "3", "4", "5", "6", "7", "8", "9"}

DigitVal ==
    ("0" :> 0) @@ ("1" :> 1) @@ ("2" :> 2) @@ ("3" :> 3) @@ ("4" :> 4) @@
    ("5" :> 5) @@ ("6" :> 6) @@ ("7" :> 7) @@ ("8" :> 8) @@ ("9" :> 9)

DigitChar == <<"0", "1", "2", "3", "4", "5", "6", "7", "8", "9">>

RECURSIVE lstrip(_)
lstrip(s) ==
    IF s = <<>> THEN s
    ELSE IF Head(s) \in Whitespace THEN lstrip(Tail(s)) ELSE s

RECURSIVE rstrip(_)
rstrip(s) ==
    IF s = <<>> THEN s
    ELSE IF s[Len(s)] \in Whitespace THEN rstrip(SubSeq(s, 1, Len(s) - 1)) ELSE s

\* str.strip(): leading and trailing whitespace removed.
strip(s) == rstrip(lstrip(s))

\* The text is an optionally signed, non-empty run of decimal digits.
IsIntLit(s) ==
    LET body == IF s # <<>> /\ Head(s) = "-" THEN Tail(s) ELSE s
    IN  /\ body # <<>>
        /\ \A i \in 1..Len(body) : body[i] \in Digits

RECURSIVE ParseDigits(_)
ParseDigits(s) ==
    IF s = <<>> THEN 0
    ELSE 10 * ParseDigits(SubSeq(s, 1, Len(s) - 1)) + DigitVal[s[Len(s)]]

ParseInt(s) == IF Head(s) = "-" THEN 0 - ParseDigits(Tail(s)) ELSE ParseDigits(s)

RECURSIVE FormatDigits(_)
FormatDigits(n) ==
    IF n < 10 THEN <<DigitChar[n + 1]>>
    ELSE Append(FormatDigits(n \div 10), DigitChar[(n % 10) + 1])

FormatInt(n) == IF n < 0 THEN <<"-">> \o FormatDigits(0 - n) ELSE FormatDigits(n)

(***************************************************************************)
(* Values and frames.                                                      *)
(***************************************************************************)
Columns == <<"title", "news_url", "source_domain", "tweet_num", "real">>

ColumnSet == {Columns[i] : i \in 1..Len(Columns)}

NaN == [k |-> "nan", s |-> <<>>, n |-> 0]

Str(s) == [k |-> "str", s |-> s, n |-> 0]

Num(n) == [k |-> "num", s |-> <<>>, n |-> n]

\* A row of a frame: its index label and one value per column.
MkRow(i, f) ==
    [idx |-> i, title |-> f["title"], news_url |-> f["news_url"],
     source_domain |-> f["source_domain"], tweet_num |-> f["tweet_num"],
     real |-> f["real"]]

\* The column values of a row, without its index label.
Fields(r) == [c \in ColumnSet |-> r[c]]

SetField(r, c, v) == MkRow(r.idx, [Fields(r) EXCEPT ![c] = v])

Frame(dt, rows) == [dt |-> dt, rows |-> rows]

EmptyFrame == Frame([c \in ColumnSet |-> "object"], <<>>)

\* The outcome of a call: a returned frame, or the exception raised.
Ok(t) == [ok |-> TRUE, err |-> "", t |-> t]

Raise(e) == [ok |-> FALSE, err |-> e, t |-> EmptyFrame]

NotRun == Raise("not run")

(***************************************************************************)
(* load_data: pd.read_csv with its defaults.                               *)
(***************************************************************************)
\* pandas' default na_values.
NAValues ==
    { <<>>,
      <<"N", "A">>, <<"N", "/", "A">>, <<"n", "/", "a">>, <<"#", "N", "A">>,
      <<"#", "N", "/", "A">>, <<"<", "N", "A", ">">>,
      <<"#", "N", "/", "A", " ", "N", "/", "A">>,
      <<"N", "a", "N">>, <<"-", "N", "a", "N">>, <<"n", "a", "n">>,
      <<"-", "n", "a", "n">>, <<"N", "U", "L", "L">>, <<"n", "u", "l", "l">>,
      <<"N", "o", "n", "e">>,
      <<"1", ".", "#", "I", "N", "D">>, <<"-", "1", ".", "#", "I", "N", "D">>,
      <<"1", ".", "#", "Q", "N", "A", "N">>,
      <<"-", "1", ".", "#", "Q", "N", "A", "N">> }

IsNA(cell) == cell \in NAValues

\* The dtype read_csv infers for column c: int64 when every cell is an
\* integer, float64 when the rest are missing, object otherwise; the
\* columns of a header-only file are object.
InferDtype(raw, c) ==
    IF Len(raw) = 0 THEN "object"
    ELSE IF \A i \in 1..Len(raw) : IsIntLit(raw[i][c]) THEN "int64"
    ELSE IF \A i \in 1..Len(raw) : IsIntLit(raw[i][c]) \/ IsNA(raw[i][c])
         THEN "float64"
    ELSE "object"

ReadCell(cell, dtype) ==
    IF IsNA(cell) THEN NaN
    ELSE IF dtype = "object" THEN Str(cell)
    ELSE Num(ParseInt(cell))

read_csv(raw) ==
    LET dt == [c \in ColumnSet |-> InferDtype(raw, c)]
    IN  Frame(dt, [i \in 1..Len(raw) |->
                     MkRow(i - 1, [c \in ColumnSet |-> ReadCell(raw[i][c], dt[c])])])

load_data(raw) == read_csv(raw)

(***************************************************************************)
(* Series and DataFrame operations used by clean_data.                     *)
(***************************************************************************)
Col(t, c) == [i \in 1..Len(t.rows) |-> t.rows[i][c]]

\* df[c] = vals: the column replaced, in row order, with the dtype of vals.
SetCol(t, c, vals, dtype) ==
    Frame([t.dt EXCEPT ![c] = dtype],
          [i \in 1..Len(t.rows) |-> SetField(t.rows[i], c, vals[i])])

\* The outcome of a Series operation: the values and dtype, or the exception.
OkCol(vals, dtype) == [ok |-> TRUE, err |-> "", vals |-> vals, dtype |-> dtype]

RaiseCol(e) == [ok |-> FALSE, err |-> e, vals |-> <<>>, dtype |-> "object"]

RECURSIVE KeepFirst(_, _)
KeepFirst(rows, i) ==
    IF i > Len(rows) THEN <<>>
    ELSE (IF \E j \in 1..(i - 1) : Fields(rows[j]) = Fields(rows[i])
          THEN <<>> ELSE <<rows[i]>>) \o KeepFirst(rows, i + 1)

\* DataFrame.drop_duplicates(): the first of each run of rows equal in every
\* column is kept, with its index label.
drop_duplicates(t) == Frame(t.dt, KeepFirst(t.rows, 1))

HasNaN(r) == \E c \in ColumnSet : r[c] = NaN

NoNaN(r) == ~HasNaN(r)

\* DataFrame.dropna(): the rows with a missing value in any column removed.
dropna(t) == Frame(t.dt, SelectSeq(t.rows, NoNaN))

\* Series.str.strip(): only an object column has the .str accessor.
str_strip(vals, dtype) ==
    IF dtype # "object" THEN RaiseCol("AttributeError")
    ELSE OkCol([i \in 1..Len(vals) |->
                  IF vals[i].k = "str" THEN Str(strip(vals[i].s)) ELSE NaN],
               "object")

\* pd.to_numeric(errors='coerce'): text that is no number becomes NaN.
to_numeric_coerce(vals, dtype) ==
    IF dtype # "object" THEN OkCol(vals, dtype)
    ELSE LET out == [i \in 1..Len(vals) |->
                       IF vals[i].k = "str" /\ IsIntLit(vals[i].s)
                       THEN Num(ParseInt(vals[i].s))
                       ELSE IF vals[i].k = "num" THEN vals[i] ELSE NaN]
         IN  OkCol(out, IF Len(vals) = 0 THEN "object"
                        ELSE IF \E i \in 1..Len(out) : out[i] = NaN
                             THEN "float64" ELSE "int64")

\* Series.fillna(v)
fillna(col, v) ==
    OkCol([i \in 1..Len(col.vals) |->
             IF col.vals[i] = NaN THEN Num(v) ELSE col.vals[i]],
          col.dtype)

\* int(x) of one object value: text is trimmed and must be an integer literal.
IntOfOk(v) == v.k = "num" \/ (v.k = "str" /\ IsIntLit(strip(v.s)))

IntOf(v) == IF v.k = "num" THEN Num(v.n) ELSE Num(ParseInt(strip(v.s)))

\* Series.astype(int): a missing value cannot be cast, and in an object
\* column every value goes through int().
astype_int(col) ==
    IF \E i \in 1..Len(col.vals) : col.vals[i] = NaN
    THEN RaiseCol(IF col.dtype = "object" THEN "ValueError"
                  ELSE "IntCastingNaNError")
    ELSE IF \E i \in 1..Len(col.vals) : ~IntOfOk(col.vals[i])
    THEN RaiseCol("ValueError")
    ELSE OkCol([i \in 1..Len(col.vals) |-> IntOf(col.vals[i])], "int64")

\* The same chain with the fill left out.
tweet_num_to_int_nofill(vals, dtype) == astype_int(to_numeric_coerce(vals, dtype))

\* pd.to_numeric(df['tweet_num'], errors='coerce').fillna(0).astype(int)
tweet_num_to_int(vals, dtype) == astype_int(fillna(to_numeric_coerce(vals, dtype), 0))

\* df['real'].astype(int)
real_to_int(vals, dtype) == astype_int(OkCol(vals, dtype))

\* DataFrame.reset_index(drop=True): index labels 0..n-1.
reset_index(t) ==
    Frame(t.dt, [i \in 1..Len(t.rows) |-> MkRow(i - 1, Fields(t.rows[i]))])

(***************************************************************************)
(* clean_data on the heap of frame objects.                                *)
(***************************************************************************)
Max(S) == CHOOSE x \in S : \A y \in S : y <= x

\* The id of a newly created object.
NewId(h) == IF DOMAIN h = {} THEN 1 ELSE Max(DOMAIN h) + 1

\* A call that returns a new frame: the heap with it, and its id.
Alloc(h, t) == [heap |-> h @@ (NewId(h) :> t), ref |-> NewId(h)]

\* The same call made in place: the receiver itself is changed and returned.
drop_duplicates_inplace(h, r) ==
    [heap |-> [h EXCEPT ![r] = drop_duplicates(h[r])], ref |-> r]

\* df = df.drop_duplicates()
drop_duplicates_obj(h, r) == Alloc(h, drop_duplicates(h[r]))

\* df = df.dropna()
dropna_obj(h, r) == Alloc(h, dropna(h[r]))

\* df = df.reset_index(drop=True)
reset_index_obj(h, r) == Alloc(h, reset_index(h[r]))

\* The state of clean_data between two statements: the heap, the object
\* its local df is bound to, and the exception raised so far.
Step(ok, e, h, r) == [ok |-> ok, err |-> e, heap |-> h, ref |-> r]

\* df[c] = <Series>: the object bound to df is assigned into, unless the
\* right-hand side raised.
SetItem(st, c, col) ==
    IF ~st.ok THEN st
    ELSE IF ~col.ok THEN Step(FALSE, col.err, st.heap, st.ref)
    ELSE Step(TRUE, "", [st.heap EXCEPT ![st.ref] =
                           SetCol(st.heap[st.ref], c, col.vals, col.dtype)],
              st.ref)

\* df[c] = df[c].str.strip()
AssignStrip(st, c) ==
    IF ~st.ok THEN st
    ELSE SetItem(st, c, str_strip(Col(st.heap[st.ref], c), st.heap[st.ref].dt[c]))

AssignTweetNum(st) ==
    IF ~st.ok THEN st
    ELSE SetItem(st, "tweet_num",
                 tweet_num_to_int(Col(st.heap[st.ref], "tweet_num"),
                                  st.heap[st.ref].dt["tweet_num"]))

AssignReal(st) ==
    IF ~st.ok THEN st
    ELSE SetItem(st, "real",
                 real_to_int(Col(st.heap[st.ref], "real"),
                             st.heap[st.ref].dt["real"]))

\* clean_data(df) called with df bound to object r of heap h: the heap
\* afterwards and the object returned, or the exception.
clean_data_obj(h, r) ==
    LET s1 == drop_duplicates_obj(h, r)
        s2 == dropna_obj(s1.heap, s1.ref)
        s3 == Step(TRUE, "", s2.heap, s2.ref)
        s4 == AssignStrip(s3, "title")
        s5 == AssignStrip(s4, "news_url")
        s6 == AssignStrip(s5, "source_domain")
        s7 == AssignTweetNum(s6)
        s8 == AssignReal(s7)
    IN  IF ~s8.ok THEN s8
        ELSE LET s9 == reset_index_obj(s8.heap, s8.ref)
             IN  Step(TRUE, "", s9.heap, s9.ref)

\* clean_data as a function of the frame it is given.
clean_data(t) ==
    LET st == clean_data_obj((1 :> t), 1)
    IN  IF st.ok THEN Ok(st.heap[st.ref]) ELSE Raise(st.err)

(***************************************************************************)
(* save_data: DataFrame.to_csv(index=False).                               *)
(***************************************************************************)
WriteCell(v, dtype) ==
    IF v.k = "nan" THEN <<>>
    ELSE IF v.k = "str" THEN v.s
    ELSE IF dtype = "float64" THEN FormatInt(v.n) \o <<".", "0">>
    ELSE FormatInt(v.n)

\* The rows written below the header; the index is not written.
to_csv(t) ==
    [i \in 1..Len(t.rows) |-> [c \in ColumnSet |-> WriteCell(t.rows[i][c], t.dt[c])]]

(***************************************************************************)
(* plot_data: the label charts of the first figure, and the two files.     *)
(***************************************************************************)
DistinctVals(vals) == {vals[i] : i \in 1..Len(vals)} \ {NaN}

CountOf(vals, v) == Cardinality({i \in 1..Len(vals) : vals[i] = v})

\* Series.value_counts(): one entry per distinct non-missing value, most
\* frequent first.  The order of equally frequent values is not specified,
\* so every order by non-increasing count is a possible result.
value_counts(vals) ==
    LET D == DistinctVals(vals)
        n == Cardinality(D)
    IN  { [i \in 1..n |-> [val |-> p[i], cnt |-> CountOf(vals, p[i])]] :
            p \in { q \in [1..n -> D] :
                      /\ \A i, j \in 1..n : i # j => q[i] # q[j]
                      /\ \A i \in 1..(n - 1) :
                            CountOf(vals, q[i]) >= CountOf(vals, q[i + 1]) } }

PieLabels == <<"Fake (0)", "Real (1)">>

BarTickLabels == <<"Fake", "Real">>

NoCharts == [pie |-> <<>>, bar |-> <<>>]

\* ax1.pie(label_counts, labels=labels): wedge i is sized by the i-th count
\* and captioned by the i-th label.
pie(label_counts) ==
    [i \in 1..Len(label_counts) |->
        [caption |-> PieLabels[i], count |-> label_counts[i].cnt]]

\* label_counts.plot(kind='bar'), set_xticklabels and the count written
\* above each bar: bar i is the i-th count, captioned by the i-th tick label.
bar(label_counts) ==
    [i \in 1..Len(label_counts) |->
        [caption |-> BarTickLabels[i], count |-> label_counts[i].cnt]]

\* What the file system does to the two savefig calls.
PlotIO == {"ok", "fail_first", "fail_second"}

PlotResult(ok, e, n, c) == [ok |-> ok, err |-> e, images |-> n, charts |-> c]

\* plot_data given the value_counts result and the file system's answer.
\* Matplotlib's pie and set_xticklabels raise ValueError unless there are as
\* many wedges (ticks) as labels.
plot_data(label_counts, io) ==
    IF Len(label_counts) # Len(PieLabels) \/ Len(label_counts) # Len(BarTickLabels)
    THEN PlotResult(FALSE, "ValueError", 0, NoCharts)
    ELSE LET c == [pie |-> pie(label_counts), bar |-> bar(label_counts)]
         IN  IF io = "fail_first" THEN PlotResult(FALSE, "OSError", 0, NoCharts)
             ELSE IF io = "fail_second" THEN PlotResult(FALSE, "OSError", 1, c)
             ELSE PlotResult(TRUE, "", 2, c)

(***************************************************************************)
(* main.                                                                   *)
(***************************************************************************)
Stages == <<"Loader", "Explorer", "Plotter", "Cleaner", "Saver">>

\* A variant of main that carries on after a stage raised.
AfterSwallowing(stage, raised) ==
    CASE stage = "load" -> "explore"
      [] stage = "explore" -> "plot"
      [] stage = "plot" -> "clean"
      [] stage = "clean" -> "save"
      [] OTHER -> "done"

\* main's control flow: the statement after a call that returned, and the
\* end of the run after one that raised (nothing catches it).
After(stage, raised) ==
    IF raised THEN "failed"
    ELSE CASE stage = "load" -> "explore"
           [] stage = "explore" -> "plot"
           [] stage = "plot" -> "clean"
           [] stage = "clean" -> "save"
           [] OTHER -> "done"

\* The objects still referenced once clean_data has returned.
Collect(h, live) == [r \in (DOMAIN h) \cap live |-> h[r]]

\* df = load_data(input_file)
Load ==
    /\ pc = "load"
    /\ \E present \in BOOLEAN :
          IF present
          THEN LET a == Alloc(heap, load_data(csv))
               IN  /\ heap' = a.heap
                   /\ df' = a.ref
                   /\ stdout' = Append(stdout, "Loader")
                   /\ pc' = After("load", FALSE)
                   /\ err' = err
          ELSE /\ pc' = After("load", TRUE)
               /\ err' = "FileNotFoundError"
               /\ UNCHANGED <<heap, df, stdout>>
    /\ UNCHANGED <<csv, df_clean, images, charts, out_csv, fnVars>>

\* explore_data(df): prints only.
Explore ==
    /\ pc = "explore"
    /\ stdout' = Append(stdout, "Explorer")
    /\ pc' = After("explore", FALSE)
    /\ UNCHANGED <<csv, heap, df, df_clean, err, images, charts, out_csv, fnVars>>

\* plot_data(df, script_dir)
Plot ==
    /\ pc = "plot"
    /\ \E lc \in value_counts(Col(heap[df], "real")), io \in PlotIO :
          LET r == plot_data(lc, io)
          IN  /\ images' = r.images
              /\ charts' = r.charts
              /\ err' = r.err
              /\ pc' = After("plot", ~r.ok)
              /\ stdout' = IF r.ok THEN Append(stdout, "Plotter") ELSE stdout
    /\ UNCHANGED <<csv, heap, df, df_clean, out_csv, fnVars>>

\* df_clean = clean_data(df)
Clean ==
    /\ pc = "clean"
    /\ LET st == clean_data_obj(heap, df)
       IN  /\ err' = st.err
           /\ pc' = After("clean", ~st.ok)
           /\ IF st.ok
              THEN /\ heap' = Collect(st.heap, {df, st.ref})
                   /\ df_clean' = st.ref
                   /\ stdout' = Append(stdout, "Cleaner")
              ELSE /\ heap' = st.heap
                   /\ UNCHANGED <<df_clean, stdout>>
    /\ UNCHANGED <<csv, df, images, charts, out_csv, fnVars>>

\* save_data(df_clean, output_file)
Save ==
    /\ pc = "save"
    /\ \E writable \in BOOLEAN :
          IF writable
          THEN /\ out_csv' = <<to_csv(heap[df_clean])>>
               /\ stdout' = Append(stdout, "Saver")
               /\ pc' = After("save", FALSE)
               /\ err' = err
          ELSE /\ pc' = After("save", TRUE)
               /\ err' = "OSError"
               /\ UNCHANGED <<out_csv, stdout>>
    /\ UNCHANGED <<csv, heap, df, df_clean, images, charts, fnVars>>

\* The cell texts the pipeline is run on.
PipelineRows ==
    [title : {<<"a">>, <<" ", "a">>},
     news_url : {<<"u">>},
     source_domain : {<<"d">>},
     tweet_num : {<<"1">>, <<"x">>},
     real : {<<"0">>, <<"1">>, <<"x">>}]

PipelineCsvs == UNION {[1..n -> PipelineRows] : n \in 0..MaxPipelineRows}

MainStart ==
    /\ pc = "load"
    /\ heap = <<>>
    /\ df = 0
    /\ df_clean = 0
    /\ err = ""
    /\ stdout = <<>>
    /\ images = 0
    /\ charts = NoCharts
    /\ out_csv = <<>>

FnIdle ==
    /\ fn_pc = "off"
    /\ fn_in = NotRun
    /\ fn_out = NotRun
    /\ fn_again = NotRun
    /\ fn_back = NotRun

Init ==
    /\ csv \in PipelineCsvs
    /\ MainStart
    /\ FnIdle

Next == Load \/ Explore \/ Plot \/ Clean \/ Save

Spec == Init /\ [][Next]_vars

(***************************************************************************)
(* The functions applied one after another to a file's contents.           *)
(***************************************************************************)
FnRows ==
    [title : {<<"a">>, <<" ", "a">>, <<" ">>, <<" ", "N", "A">>, <<"7">>},
     news_url : {<<"u">>},
     source_domain : {<<"d">>},
     tweet_num : {<<"0">>, <<"x">>, <<"-", "1">>, <<"N", "/", "A">>},
     real : {<<"1">>, <<"2">>, <<"x">>}]

FnCsvs == UNION {[1..n -> FnRows] : n \in 0..MaxRows}

FnLoad ==
    /\ fn_pc = "load"
    /\ fn_in' = Ok(load_data(csv))
    /\ fn_pc' = "clean"
    /\ UNCHANGED <<csv, mainVars, fn_out, fn_again, fn_back>>

FnClean ==
    /\ fn_pc = "clean"
    /\ fn_out' = clean_data(fn_in.t)
    /\ fn_pc' = IF fn_out'.ok THEN "reclean" ELSE "raised"
    /\ UNCHANGED <<csv, mainVars, fn_in, fn_again, fn_back>>

FnReclean ==
    /\ fn_pc = "reclean"
    /\ fn_again' = clean_data(fn_out.t)
    /\ fn_pc' = "roundtrip"
    /\ UNCHANGED <<csv, mainVars, fn_in, fn_out, fn_back>>

FnRoundTrip ==
    /\ fn_pc = "roundtrip"
    /\ fn_back' = Ok(load_data(to_csv(fn_out.t)))
    /\ fn_pc' = "done"
    /\ UNCHANGED <<csv, mainVars, fn_in, fn_out, fn_again>>

FnInit ==
    /\ csv \in FnCsvs
    /\ pc = "off"
    /\ heap = <<>>
    /\ df = 0
    /\ df_clean = 0
    /\ err = ""
    /\ stdout = <<>>
    /\ images = 0
    /\ charts = NoCharts
    /\ out_csv = <<>>
    /\ fn_pc = "load"
    /\ fn_in = NotRun
    /\ fn_out = NotRun
    /\ fn_again = NotRun
    /\ fn_back = NotRun

FnNext == FnLoad \/ FnClean \/ FnReclean \/ FnRoundTrip

FnSpec == FnInit /\ [][FnNext]_vars

(***************************************************************************)
(* Properties of load_data, clean_data and save_data (under FnSpec).       *)
(***************************************************************************)
Cleaned == fn_pc \in {"reclean", "roundtrip", "done", "raised"}

OutRows == fn_out.t.rows

\* The rows of the loaded frame that survive the two row-dropping steps, in
\* the positions they keep through the rest of clean_data.
Survivors == dropna(drop_duplicates(fn_in.t)).rows

\* A non-null value pd.to_numeric cannot parse.
NotANumber(v) == v.k = "str" /\ ~IsIntLit(v.s)

\* A non-null value int() cannot convert.
NotAnInt(v) == v.k = "str" /\ ~IsIntLit(strip(v.s))

\* C1: the table clean_data returns holds no two rows equal in every field.
C1_NoDuplicateRows ==
    (Cleaned /\ fn_out.ok) =>
        \A i, j \in 1..Len(OutRows) :
            i # j => Fields(OutRows[i]) # Fields(OutRows[j])

\* C2: in every row clean_data returns, tweet_num is an integer >= 0 and
\* real is 0 or 1.
C2_TweetNumAndLabelRanges ==
    (Cleaned /\ fn_out.ok) =>
        \A i \in 1..Len(OutRows) :
            /\ OutRows[i].tweet_num.k = "num"
            /\ OutRows[i].tweet_num.n >= 0
            /\ OutRows[i].real \in {Num(0), Num(1)}

\* C3: cleaning a cleaned table returns a table identical to it (rows, order,
\* values, index labels, dtypes).
C3_CleanIdempotent ==
    fn_pc \in {"roundtrip", "done"} => (fn_again.ok /\ fn_again.t = fn_out.t)

\* C4: a cleaned table written by save_data and read back by load_data has
\* the rows that were written: as many, in the same order, every field with
\* the same value of the same type.
C4_SaveLoadRoundTrip ==
    fn_pc = "done" => (fn_back.ok /\ fn_back.t.rows = fn_out.t.rows)

\* C5: a row of the input file whose tweet_num cell is the text N/A and whose
\* other cells are present is in the cleaned output with tweet_num = 0: it is
\* not dropped and its tweet_num does not fail the coercion.
C5_NATweetNumKeptAsZero ==
    Cleaned =>
        \A i \in 1..Len(csv) :
            ( /\ csv[i]["tweet_num"] = <<"N", "/", "A">>
              /\ \A c \in ColumnSet \ {"tweet_num"} : ~IsNA(csv[i][c]) )
            => /\ fn_out.err # "IntCastingNaNError"
               /\ fn_out.ok =>
                    \E j \in 1..Len(OutRows) :
                        /\ OutRows[j].tweet_num = Num(0)
                        /\ OutRows[j].title = Str(strip(csv[i]["title"]))
                        /\ OutRows[j].news_url = Str(strip(csv[i]["news_url"]))
                        /\ OutRows[j].source_domain =
                               Str(strip(csv[i]["source_domain"]))

\* The exceptions a failed conversion to integer raises.
ConversionErrors == {"ValueError", "IntCastingNaNError"}

\* C7 as stated: a non-null value of tweet_num or real that cannot be
\* converted to an integer never ends clean_data with a conversion error,
\* and is 0 in the output clean_data returns.
C7_AnyConversionFailureDefaultsToZero ==
    Cleaned =>
        \A k \in 1..Len(Survivors) :
            /\ NotANumber(Survivors[k].tweet_num) =>
                   /\ fn_out.err \notin ConversionErrors
                   /\ fn_out.ok => OutRows[k].tweet_num = Num(0)
            /\ NotAnInt(Survivors[k].real) =>
                   /\ fn_out.err \notin ConversionErrors
                   /\ fn_out.ok => OutRows[k].real = Num(0)

\* C7 as amended: a non-null tweet_num that is no number is turned into 0 by
\* the tweet_num coercion, which does not raise, and is 0 in the output when
\* clean_data returns; a non-null real that int() cannot convert is not
\* defaulted: clean_data raises.
C7_TweetNumFailureDefaultsToZero ==
    Cleaned =>
        LET kept == dropna(drop_duplicates(fn_in.t))
            col == tweet_num_to_int(Col(kept, "tweet_num"), kept.dt["tweet_num"])
        IN  \A k \in 1..Len(kept.rows) :
                /\ NotANumber(kept.rows[k].tweet_num) =>
                       /\ col.ok
                       /\ col.vals[k] = Num(0)
                       /\ fn_out.err # "IntCastingNaNError"
                       /\ fn_out.ok => OutRows[k].tweet_num = Num(0)
                /\ NotAnInt(kept.rows[k].real) => ~fn_out.ok

\* C7's case: clean_data returned a row whose tweet_num text was no number.
C7_Witness ==
    /\ Cleaned
    /\ fn_out.ok
    /\ \E k \in 1..Len(Survivors) :
          /\ NotANumber(Survivors[k].tweet_num)
          /\ OutRows[k].tweet_num = Num(0)

(***************************************************************************)
(* Properties of a run of main (under Spec).                               *)
(***************************************************************************)
IsPrefix(s, t) == Len(s) <= Len(t) /\ s = SubSeq(t, 1, Len(s))

Running == pc \in {"load", "explore", "plot", "clean", "save"}

PcIndex ==
    CASE pc = "load" -> 1
      [] pc = "explore" -> 2
      [] pc = "plot" -> 3
      [] pc = "clean" -> 4
      [] pc = "save" -> 5
      [] OTHER -> 6

\* C6: on a header-only file the Loader loads zero rows, the Plotter does
\* not raise on the empty series, and the cleaned table that reaches the
\* Saver has zero rows.
C6_HeaderOnlyRunCompletes ==
    Len(csv) = 0 =>
        /\ df # 0 => Len(heap[df].rows) = 0
        /\ err \notin {"ValueError", "AttributeError", "IntCastingNaNError"}
        /\ df_clean # 0 => Len(heap[df_clean].rows) = 0

\* C8: the stages complete in the order Loader, Explorer, Plotter, Cleaner,
\* Saver, each at most once and only after the one before it; once a stage
\* has raised nothing more runs; the cleaned CSV is written only after the
\* four stages before the Saver completed and both images were written.
C8_StagesRunInOrder ==
    /\ IsPrefix(stdout, Stages)
    /\ Running => Len(stdout) = PcIndex - 1
    /\ (err # "") = (pc = "failed")
    /\ pc = "failed" => ~ENABLED Next
    /\ out_csv # <<>> =>
          /\ SubSeq(stdout, 1, 4) = SubSeq(Stages, 1, 4)
          /\ images = 2
          /\ df_clean # 0

\* C8's case: a run in which every stage completed and the CSV was written.
C8_Witness == pc = "done" /\ out_csv # <<>> /\ stdout = Stages /\ images = 2

\* C9: from the moment it is loaded, the frame main's df is bound to is left
\* as it is by every stage, and clean_data returns another object.
C9_LoadedTableNotMutated ==
    /\ [](df_clean # 0 => df_clean # df)
    /\ [][df # 0 => /\ df' = df
                    /\ df \in DOMAIN heap'
                    /\ heap'[df] = heap[df]]_vars

\* C9's case: clean_data has returned a table that differs from the loaded one.
C9_Witness ==
    /\ df # 0
    /\ df_clean # 0
    /\ heap[df_clean].rows # heap[df].rows

\* C10: when the table holds both labels, the wedge and the bar captioned
\* Fake show the number of rows with real = 0, and those captioned Real the
\* number of rows with real = 1.
C10_CaptionsMatchLabelCounts ==
    LET labels == Col(heap[df], "real")
        expected == ("Fake (0)" :> CountOf(labels, Num(0))) @@
                    ("Real (1)" :> CountOf(labels, Num(1))) @@
                    ("Fake" :> CountOf(labels, Num(0))) @@
                    ("Real" :> CountOf(labels, Num(1)))
    IN  ( /\ charts # NoCharts
          /\ CountOf(labels, Num(0)) > 0
          /\ CountOf(labels, Num(1)) > 0 )
        => /\ \A i \in 1..Len(charts.pie) :
                 charts.pie[i].count = expected[charts.pie[i].caption]
           /\ \A i \in 1..Len(charts.bar) :
                 charts.bar[i].count = expected[charts.bar[i].caption]

====
